---- MODULE Spec2Model ----
(***************************************************************************)
(* Model of src/main.ts (obsidian-social-share): the "Share to RedNote"    *)
(* command.  A note's text loses its front matter, is split into pages of  *)
(* 12 non-blank lines, every page is drawn on a 1080x1440 canvas (title,   *)
(* word-wrapped body, footer), and the images are shown in a preview modal *)
(* from which they are saved.                                              *)
(*                                                                         *)
(* A JavaScript string is a sequence of one-character strings.  Text that  *)
(* the source writes in Chinese is written here in pinyin, one syllable    *)
(* per character.                                                          *)
(***************************************************************************)
EXTENDS Integers, Sequences, FiniteSets

VARIABLES
    editorValue,   \* editor.getValue() when the command runs
    fileName,      \* view.file?.basename, or Undefined
    metrics,       \* the font metrics behind context.measureText: glyph -> width
    pc,            \* position of the running handler
    content,       \* generateRedNoteImages: `content` after the replace
    pages,         \* generateRedNoteImages: `pages`
    pageIndex,     \* generateRedNoteImages: 1-based position of the for-of loop
    ctx,           \* generateSinglePageImage: `ctx` of the page being rendered
    images,        \* generateRedNoteImages: `images`
    renderLog,     \* calls and returns of generateSinglePageImage, in order
    notices,       \* texts of the Notice objects created so far
    modalOpen,     \* an ImagePreviewModal is open
    currentIndex,  \* ImagePreviewModal.currentIndex
    downloads,     \* the (download, href) pairs of the links clicked so far
    text,          \* wrapText: `text`
    maxWidth,      \* wrapText: `maxWidth`
    lines          \* wrapText: the returned `lines`

vars == <<editorValue, fileName, metrics, pc, content, pages, pageIndex, ctx,
          images, renderLog, notices, modalOpen, currentIndex, downloads,
          text, maxWidth, lines>>

-----------------------------------------------------------------------------
(* Characters and strings *)

SP == " "
NL == "\n"
TAB == "\t"

\* What String.prototype.trim removes (the members that occur in the model)
WhiteSpace == {SP, NL, TAB}

\* view.file?.basename without a file
Undefined == "undefined"

\* what generateSinglePageImage returns from its bare `return`
Absent == [undefined |-> TRUE]

\* no canvas context is held
NoContext == "none"

RECURSIVE split(_, _)
\* String.prototype.split with a one-character separator
split(s, sep) ==
    IF \E i \in 1..Len(s) : s[i] = sep
    THEN LET i == CHOOSE i \in 1..Len(s) :
                      s[i] = sep /\ \A j \in 1..(i - 1) : s[j] # sep
         IN  <<SubSeq(s, 1, i - 1)>> \o split(SubSeq(s, i + 1, Len(s)), sep)
    ELSE <<s>>

RECURSIVE trimStart(_)
trimStart(s) ==
    IF s # <<>> /\ Head(s) \in WhiteSpace THEN trimStart(Tail(s)) ELSE s

RECURSIVE trimEnd(_)
trimEnd(s) ==
    IF s # <<>> /\ s[Len(s)] \in WhiteSpace
    THEN trimEnd(SubSeq(s, 1, Len(s) - 1))
    ELSE s

\* String.prototype.trim
trim(s) == trimEnd(trimStart(s))

\* Math.ceil(n / d) for n >= 0, d > 0
ceil(n, d) == IF n % d = 0 THEN n \div d ELSE (n \div d) + 1

-----------------------------------------------------------------------------
(* splitContentIntoPages *)

LinesPerPage == 12

\* the title of every page after the first
ContinueReading == <<"ji", "xu", "yue", "du">>

\* the filter callback: line => line.trim(), truthy when non-empty
KeepLine(line) == trim(line) # <<>>

ClosePageLate(currentPage, i, paragraphs) ==
    Len(currentPage) > LinesPerPage \/ i = Len(paragraphs)

ClosePageNoLast(currentPage, i, paragraphs) ==
    Len(currentPage) >= LinesPerPage

\* the test that closes a page; i is 1-based here, so the last index is the length
ClosePage(currentPage, i, paragraphs) ==
    Len(currentPage) >= LinesPerPage \/ i = Len(paragraphs)

TotalPagesFloor(paragraphs) == Len(paragraphs) \div LinesPerPage

TotalPages(paragraphs) == ceil(Len(paragraphs), LinesPerPage)

RECURSIVE SplitLoop(_, _, _, _, _)
\* the for loop: one call per iteration, returning `pages` at the exit
SplitLoop(paragraphs, i, currentPage, pageCount, acc) ==
    IF i > Len(paragraphs)
    THEN acc
    ELSE LET pushed == Append(currentPage, paragraphs[i])
         IN  IF ClosePage(pushed, i, paragraphs)
             THEN SplitLoop(paragraphs, i + 1, <<>>, pageCount + 1,
                      Append(acc,
                          [title |-> IF pageCount + 1 = 1
                                     THEN paragraphs[1]
                                     ELSE ContinueReading,
                           content |-> pushed,
                           pageNumber |-> pageCount + 1,
                           totalPages |-> TotalPages(paragraphs)]))
             ELSE SplitLoop(paragraphs, i + 1, pushed, pageCount, acc)

splitContentIntoPages(c) ==
    LET paragraphs == SelectSeq(split(c, NL), KeepLine)
    IN  SplitLoop(paragraphs, 1, <<>>, 0, <<>>)

-----------------------------------------------------------------------------
(* Inputs *)

RECURSIVE join(_, _)
\* Array.prototype.join with a one-character separator
join(ls, sep) ==
    IF ls = <<>> THEN <<>>
    ELSE IF Len(ls) = 1 THEN ls[1]
    ELSE ls[1] \o <<sep>> \o join(Tail(ls), sep)

RECURSIVE StringsUpTo(_, _)
\* every string over `chars` of length at most n
StringsUpTo(chars, n) ==
    IF n = 0 THEN {<<>>}
    ELSE LET shorter == StringsUpTo(chars, n - 1)
         IN  shorter \cup {Append(s, c) : s \in shorter, c \in chars}

MaxLines == 25
MaxShortLen == 5

\* the line texts a generated note cycles through
LineTexts ==
    << <<"a">>, <<"b", SP, "b", SP, "b", SP, "b">>, <<"a", SP, "b">> >>

\* a note of n lines: line j is LineTexts[(j + shift) mod 3], except that line p
\* (if any) is `special`
NoteLines(n, shift, p, special) ==
    [j \in 1..n |-> IF j = p THEN special
                    ELSE LineTexts[((j + shift) % Len(LineTexts)) + 1]]

BlankLines == {<<>>, <<SP>>, <<SP, TAB>>}

SplitDocs ==
    {join(NoteLines(n, shift, p, special), NL) :
        n \in 0..MaxLines, shift \in 0..1, p \in 0..MaxLines, special \in BlankLines}
    \cup StringsUpTo({"a", SP, NL}, MaxShortLen)

-----------------------------------------------------------------------------
(* Specification of splitContentIntoPages alone *)

Unused ==
    /\ fileName = Undefined
    /\ pageIndex = 0
    /\ ctx = NoContext
    /\ images = <<>>
    /\ renderLog = <<>>
    /\ notices = {}
    /\ modalOpen = FALSE
    /\ currentIndex = 0
    /\ downloads = {}

InitSplit ==
    /\ Unused
    /\ editorValue = <<>>
    /\ content \in SplitDocs
    /\ pages = <<>>
    /\ pc = "call"
    /\ text = <<>> /\ maxWidth = 0 /\ lines = <<>>
    /\ metrics = <<>>

Paginate ==
    /\ pc = "call"
    /\ pages' = splitContentIntoPages(content)
    /\ pc' = "returned"
    /\ UNCHANGED <<editorValue, fileName, metrics, content, pageIndex, ctx,
                   images, renderLog, notices, modalOpen, currentIndex,
                   downloads, text, maxWidth, lines>>

NextSplit == Paginate

SpecSplit == InitSplit /\ [][NextSplit]_vars

-----------------------------------------------------------------------------
(* Claims about splitContentIntoPages *)

\* a line that is empty once its white space is trimmed
IsBlank(line) == \A i \in 1..Len(line) : line[i] \in WhiteSpace

\* the non-blank lines of a text, untrimmed, in order
NonBlankLines(c) == SelectSeq(split(c, NL), LAMBDA line : ~IsBlank(line))

RECURSIVE ConcatContents(_)
\* the content lists of a page list, concatenated in page order
ConcatContents(ps) ==
    IF ps = <<>> THEN <<>> ELSE Head(ps).content \o ConcatContents(Tail(ps))

\* the least number of pages of LinesPerPage lines that hold n lines
PagesNeeded(n) == CHOOSE k \in 0..n : k * LinesPerPage >= n
                                      /\ (k = 0 \/ (k - 1) * LinesPerPage < n)

\* C1: the content lists of the returned pages, concatenated in page order, are
\* exactly the non-blank lines of the text, in the order of the text.
C1_PagesHoldNonBlankLines ==
    pc = "returned" => ConcatContents(pages) = NonBlankLines(content)

C1_Witness ==
    /\ pc = "returned"
    /\ Len(pages) >= 2
    /\ Len(split(content, NL)) > Len(NonBlankLines(content))

\* C2: a text of N non-blank lines gives ceil(N / 12) pages, each stamped with
\* that total, the i-th of them numbered i.
C2_PageCountAndNumbers ==
    pc = "returned" =>
        LET total == PagesNeeded(Len(NonBlankLines(content)))
        IN  /\ Len(pages) = total
            /\ \A i \in 1..Len(pages) :
                   pages[i].totalPages = total /\ pages[i].pageNumber = i

C2_Witness ==
    /\ pc = "returned"
    /\ Len(pages) = 3
    /\ Len(NonBlankLines(content)) = 2 * LinesPerPage + 1

\* C3: every returned page holds between 1 and 12 lines, and every page but the
\* last holds exactly 12; no page comes from an empty buffer.
C3_PageSizes ==
    pc = "returned" =>
        \A i \in 1..Len(pages) :
            /\ Len(pages[i].content) \in 1..LinesPerPage
            /\ i < Len(pages) => Len(pages[i].content) = LinesPerPage

C3_Witness ==
    /\ pc = "returned"
    /\ Len(NonBlankLines(content)) = 2 * LinesPerPage
    /\ Len(pages) = 2
    /\ Len(pages[2].content) = LinesPerPage

C3_WitnessEmpty ==
    /\ pc = "returned"
    /\ content # <<>>
    /\ pages = <<>>

-----------------------------------------------------------------------------
(* wrapText *)

Glyphs == {"a", "b", "k", "-", SP, TAB}

RECURSIVE measureText(_, _)
\* context.measureText(s).width: the widths of the glyphs of s, added up
measureText(context, s) ==
    IF s = <<>> THEN 0 ELSE context[Head(s)] + measureText(context, Tail(s))

OverflowsMeasuringCurrent(context, testLine, currentLine, width) ==
    measureText(context, currentLine) > width /\ currentLine # <<>>

\* the test that closes a fragment
Overflows(context, testLine, currentLine, width) ==
    measureText(context, testLine) > width /\ currentLine # <<>>

StartLineNoSpace(word) == word

\* the fragment a closing token starts
StartLine(word) == word \o <<SP>>

RECURSIVE WrapLoop(_, _, _, _, _, _)
\* the for-of loop over `words`, and the push after it
WrapLoop(context, words, k, currentLine, acc, width) ==
    IF k > Len(words)
    THEN Append(acc, currentLine)
    ELSE LET testLine == currentLine \o words[k] \o <<SP>>
         IN  IF Overflows(context, testLine, currentLine, width)
             THEN WrapLoop(context, words, k + 1, StartLine(words[k]),
                           Append(acc, currentLine), width)
             ELSE WrapLoop(context, words, k + 1, testLine, acc, width)

wrapText(context, t, width) ==
    WrapLoop(context, split(t, SP), 1, <<>>, <<>>, width)

\* font metrics: the width of "b", of a space, and of every other glyph
Metric(wa, wb, wsp) ==
    [g \in Glyphs |-> CASE g = "b" -> wb [] g = SP -> wsp [] OTHER -> wa]

MaxTextLen == 5
MaxWrapWidth == 4

WrapMetrics == {Metric(1, 1, 1), Metric(1, 3, 1), Metric(1, 2, 0), Metric(2, 5, 1)}

InitWrap ==
    /\ Unused
    /\ editorValue = <<>> /\ content = <<>> /\ pages = <<>>
    /\ pc = "call"
    /\ text \in StringsUpTo({"a", "b", SP}, MaxTextLen)
    /\ maxWidth \in 0..MaxWrapWidth
    /\ lines = <<>>
    /\ metrics \in WrapMetrics

Wrap ==
    /\ pc = "call"
    /\ lines' = wrapText(metrics, text, maxWidth)
    /\ pc' = "returned"
    /\ UNCHANGED <<editorValue, fileName, metrics, content, pages, pageIndex,
                   ctx, images, renderLog, notices, modalOpen, currentIndex,
                   downloads, text, maxWidth>>

NextWrap == Wrap

SpecWrap == InitWrap /\ [][NextWrap]_vars

\* a fragment made of one token and the space that follows it
IsSingleToken(f) ==
    /\ f # <<>>
    /\ f[Len(f)] = SP
    /\ \A i \in 1..(Len(f) - 1) : f[i] # SP

\* C4: every fragment wrapText returns measures at most maxWidth, except a
\* fragment that is one token with its trailing space and is wider than maxWidth.
C4_FragmentsFit ==
    pc = "returned" =>
        \A i \in 1..Len(lines) :
            measureText(metrics, lines[i]) <= maxWidth \/ IsSingleToken(lines[i])

C4_Witness ==
    /\ pc = "returned"
    /\ Len(lines) >= 3
    /\ \E i \in 1..Len(lines) :
           measureText(metrics, lines[i]) > maxWidth /\ IsSingleToken(lines[i])
    /\ \E i \in 1..Len(lines) :
           measureText(metrics, lines[i]) <= maxWidth /\ ~IsSingleToken(lines[i])

RECURSIVE Flatten(_)
\* the strings of a list, concatenated in order
Flatten(ls) == IF ls = <<>> THEN <<>> ELSE Head(ls) \o Flatten(Tail(ls))

\* C10: wrapText returns at least one fragment, and the fragments concatenated
\* in order are the text followed by one space.
C10_WrapKeepsText ==
    pc = "returned" =>
        /\ Len(lines) >= 1
        /\ Flatten(lines) = text \o <<SP>>

C10_Witness ==
    /\ pc = "returned"
    /\ Len(lines) >= 2
    /\ \E i \in 1..(Len(text) - 1) : text[i] = SP /\ text[i + 1] = SP

-----------------------------------------------------------------------------
(* Front matter: content.replace(/^---[\s\S]*?---\n/, '') *)

Dash == "-"

\* the regular expression matches s with k characters between the two markers:
\* "---" at the very start, any k characters, then "---" and a line break
MatchesWithGap(s, k) ==
    /\ Len(s) >= 7 + k
    /\ SubSeq(s, 1, 3) = <<Dash, Dash, Dash>>
    /\ SubSeq(s, 4 + k, 7 + k) = <<Dash, Dash, Dash, NL>>

\* the replace: the lazy quantifier takes the least k, and only the first match
\* goes (no g flag); a string without a match is returned as it is
StripFrontMatter(s) ==
    IF \E k \in 0..Len(s) : MatchesWithGap(s, k)
    THEN LET k == CHOOSE k \in 0..Len(s) :
                      MatchesWithGap(s, k)
                      /\ \A j \in 0..(k - 1) : ~MatchesWithGap(s, j)
         IN  SubSeq(s, 8 + k, Len(s))
    ELSE s

MaxFrontMatterLen == 11

InitFrontMatter ==
    /\ Unused
    /\ editorValue \in StringsUpTo({Dash, NL, "k"}, MaxFrontMatterLen)
    /\ content = <<>> /\ pages = <<>>
    /\ pc = "call"
    /\ text = <<>> /\ maxWidth = 0 /\ lines = <<>>
    /\ metrics = <<>>

\* the first two statements of generateRedNoteImages
StripAndPaginate ==
    /\ pc = "call"
    /\ content' = StripFrontMatter(editorValue)
    /\ pages' = splitContentIntoPages(content')
    /\ pc' = "returned"
    /\ UNCHANGED <<editorValue, fileName, metrics, pageIndex, ctx, images,
                   renderLog, notices, modalOpen, currentIndex, downloads,
                   text, maxWidth, lines>>

NextFrontMatter == StripAndPaginate

SpecFrontMatter == InitFrontMatter /\ [][NextFrontMatter]_vars

\* s[e..e+2] is an end marker: "---" on a line of its own, followed by a line break
IsEndMarker(s, e) ==
    /\ e >= 5
    /\ Len(s) >= e + 3
    /\ s[e - 1] = NL
    /\ SubSeq(s, e, e + 3) = <<Dash, Dash, Dash, NL>>

\* s begins with a front-matter block: the start marker on the first line, and an
\* end marker after it
BeginsWithFrontMatter(s) ==
    /\ Len(s) >= 4
    /\ SubSeq(s, 1, 4) = <<Dash, Dash, Dash, NL>>
    /\ \E e \in 1..Len(s) : IsEndMarker(s, e)

\* s without the front-matter block it begins with, if it begins with one
WithoutFrontMatter(s) ==
    IF BeginsWithFrontMatter(s)
    THEN LET e == CHOOSE e \in 1..Len(s) :
                      IsEndMarker(s, e) /\ \A j \in 1..(e - 1) : ~IsEndMarker(s, j)
         IN  SubSeq(s, e + 4, Len(s))
    ELSE s

\* C7: a text that begins with a front-matter block (markers on lines of their
\* own) loses exactly that block before pagination, and any other text is
\* paginated unchanged.
C7_FrontMatterStripped ==
    pc = "returned" =>
        /\ content = WithoutFrontMatter(editorValue)
        /\ pages = splitContentIntoPages(WithoutFrontMatter(editorValue))

-----------------------------------------------------------------------------
(* generateSinglePageImage *)

width == 1080
height == 1440
margin == 60
TitleBaseline == 50
TitleAdvance == 100
lineHeight == 50
ParagraphSpacing == 20
BottomGap == 100
FooterRight == 100
FooterBottom == 50

TitleFont == "bold 48px"
BodyFont == "36px"
FooterFont == "28px"

BoundaryAtCanvasEdge == height

\* the last vertical position a body fragment may be drawn at
BottomBoundary == height - BottomGap

\* width - margin * 2
ContentWidth == width - margin * 2

Digit(d) == <<"0", "1", "2", "3", "4", "5", "6", "7", "8", "9">>[d + 1]

RECURSIVE toString(_)
\* a non-negative integer in a template string: its decimal digits
toString(n) ==
    IF n < 10 THEN <<Digit(n)>> ELSE toString(n \div 10) \o <<Digit(n % 10)>>

\* one ctx.fillText call
FillText(font, t, x, y) == [font |-> font, text |-> t, x |-> x, y |-> y]

\* the `continue` of the paragraph loop
SkipParagraph(paragraph, page) ==
    paragraph = page.title /\ page.pageNumber = 1

RECURSIVE DrawLines(_, _, _, _)
\* the inner loop over the fragments of one paragraph: [y, drawn] at its exit
DrawLines(ls, j, y, drawn) ==
    IF j > Len(ls) \/ y > BottomBoundary
    THEN [y |-> y, drawn |-> drawn]
    ELSE DrawLines(ls, j + 1, y + lineHeight,
                   Append(drawn, FillText(BodyFont, ls[j], margin, y)))

RECURSIVE DrawParagraphs(_, _, _, _, _)
\* the loop over page.content: the fillText calls made when it exits
DrawParagraphs(context, page, p, y, drawn) ==
    IF p > Len(page.content)
    THEN drawn
    ELSE IF SkipParagraph(page.content[p], page)
         THEN DrawParagraphs(context, page, p + 1, y, drawn)
         ELSE LET r == DrawLines(wrapText(context, page.content[p], ContentWidth),
                                 1, y, drawn)
              IN  DrawParagraphs(context, page, p + 1,
                                 r.y + ParagraphSpacing, r.drawn)

Null == "null"

\* what canvas.toDataURL encodes, or Absent when there is no context
generateSinglePageImage(page, context2d, context) ==
    IF context2d = Null
    THEN Absent
    ELSE LET titleY == margin + TitleBaseline
             title == <<FillText(TitleFont, page.title, margin, titleY)>>
             body == DrawParagraphs(context, page, 1, titleY + TitleAdvance, title)
             footer == FillText(FooterFont,
                                toString(page.pageNumber) \o <<"/">>
                                    \o toString(page.totalPages),
                                width - FooterRight, height - FooterBottom)
         IN  [width |-> width, height |-> height, background |-> "#ffffff",
              texts |-> Append(body, footer)]

-----------------------------------------------------------------------------
(* The command: createRedNoteShare, generateRedNoteImages, ImagePreviewModal *)

\* Notice texts
SaveFileFirst == "qing xian bao cun wen jian"
AllImagesSaved == "suo you tu pian yi bao cun"

\* "_" + the share label + "_"
ShareLabel == <<"_", "xiao", "hong", "shu", "fen", "xiang", "_">>

PngExt == <<".", "p", "n", "g">>

\* saveImage: the link that is clicked
saveImage(imageData, index) ==
    [download |-> fileName \o ShareLabel \o toString(index) \o PngExt,
     href |-> imageData]

PageAtReversed(ps, k) == ps[Len(ps) + 1 - k]

\* the page the k-th iteration of `for (const page of pages)` takes
PageAt(ps, k) == ps[k]

\* if (imageData) images.push(imageData)
PushImage(imgs, imageData) ==
    IF imageData # Absent THEN Append(imgs, imageData) ELSE imgs

MaxShareLines == 25

\* font metrics at 36px: a narrow font, and three in which "b" stands for a long
\* word (the last one for a word wider than the content width)
PageMetrics ==
    {Metric(20, 20, 10), Metric(20, 400, 10), Metric(20, 600, 10),
     Metric(20, 1000, 10)}

FrontMatter == <<Dash, Dash, Dash, NL, "k", NL, Dash, Dash, Dash, NL>>

ShareDocs ==
    {header \o join(NoteLines(n, shift, p, <<SP>>), NL) :
        header \in {<<>>, FrontMatter},
        n \in 0..MaxShareLines, shift \in 0..2, p \in 0..1}

Init ==
    /\ editorValue \in ShareDocs
    /\ fileName \in {Undefined, <<"n">>}
    /\ metrics \in PageMetrics
    /\ pc = "idle"
    /\ content = <<>>
    /\ pages = <<>>
    /\ pageIndex = 0
    /\ ctx = NoContext
    /\ images = <<>>
    /\ renderLog = <<>>
    /\ notices = {}
    /\ modalOpen = FALSE
    /\ currentIndex = 0
    /\ downloads = {}
    /\ text = <<>> /\ maxWidth = 0 /\ lines = <<>>

\* editorCallback -> createRedNoteShare -> generateRedNoteImages, to the loop
ShareToRedNote ==
    /\ pc = "idle"
    /\ IF fileName = Undefined
       THEN /\ notices' = notices \cup {SaveFileFirst}
            /\ pc' = "done"
            /\ UNCHANGED <<content, pages, pageIndex, images>>
       ELSE /\ content' = StripFrontMatter(editorValue)
            /\ pages' = splitContentIntoPages(content')
            /\ images' = <<>>
            /\ pageIndex' = 1
            /\ pc' = "loop"
            /\ UNCHANGED notices
    /\ UNCHANGED <<editorValue, fileName, metrics, ctx, renderLog, modalOpen,
                   currentIndex, downloads, text, maxWidth, lines>>

\* generateSinglePageImage is called: the canvas is made and asked for a context
BeginRender ==
    /\ pc = "loop"
    /\ pageIndex <= Len(pages)
    /\ ctx' \in {"2d", Null}
    /\ renderLog' = Append(renderLog,
                           [ev |-> "call", page |-> PageAt(pages, pageIndex)])
    /\ pc' = "render"
    /\ UNCHANGED <<editorValue, fileName, metrics, content, pages, pageIndex,
                   images, notices, modalOpen, currentIndex, downloads,
                   text, maxWidth, lines>>

\* generateSinglePageImage returns and the loop body finishes
EndRender ==
    /\ pc = "render"
    /\ LET page == PageAt(pages, pageIndex)
           imageData == generateSinglePageImage(page, ctx, metrics)
       IN  /\ renderLog' = Append(renderLog,
                   [ev |-> "return", page |-> page, imageData |-> imageData])
           /\ images' = PushImage(images, imageData)
    /\ pageIndex' = pageIndex + 1
    /\ ctx' = NoContext
    /\ pc' = "loop"
    /\ UNCHANGED <<editorValue, fileName, metrics, content, pages, notices,
                   modalOpen, currentIndex, downloads, text, maxWidth, lines>>

\* the loop is over: generateRedNoteImages returns, createRedNoteShare goes on
ReturnImages ==
    /\ pc = "loop"
    /\ pageIndex > Len(pages)
    /\ IF Len(images) = 0
       THEN /\ pc' = "done"
            /\ UNCHANGED <<modalOpen, currentIndex>>
       ELSE /\ modalOpen' = TRUE
            /\ currentIndex' = 0
            /\ pc' = "preview"
    /\ UNCHANGED <<editorValue, fileName, metrics, content, pages, pageIndex,
                   ctx, images, renderLog, notices, downloads,
                   text, maxWidth, lines>>

ModalUnchanged ==
    UNCHANGED <<editorValue, fileName, metrics, pc, content, pages, pageIndex,
                ctx, images, renderLog, modalOpen, text, maxWidth, lines>>

\* the "previous page" button
PreviousPage ==
    /\ pc = "preview"
    /\ Len(images) > 1
    /\ currentIndex # 0
    /\ currentIndex' = currentIndex - 1
    /\ UNCHANGED <<notices, downloads>>
    /\ ModalUnchanged

\* the "next page" button
NextPage ==
    /\ pc = "preview"
    /\ Len(images) > 1
    /\ currentIndex # Len(images) - 1
    /\ currentIndex' = currentIndex + 1
    /\ UNCHANGED <<notices, downloads>>
    /\ ModalUnchanged

\* the "save all images" button: saveAllImages
SaveAllImages ==
    /\ pc = "preview"
    /\ Len(images) > 1
    /\ downloads' = downloads \cup {saveImage(images[i], i) : i \in 1..Len(images)}
    /\ notices' = notices \cup {AllImagesSaved}
    /\ UNCHANGED currentIndex
    /\ ModalUnchanged

\* the "save image" button of a one-image preview
SaveImage ==
    /\ pc = "preview"
    /\ ~(Len(images) > 1)
    /\ downloads' = downloads \cup {saveImage(images[1], 1)}
    /\ UNCHANGED <<notices, currentIndex>>
    /\ ModalUnchanged

\* the modal is closed
CloseModal ==
    /\ pc = "preview"
    /\ modalOpen' = FALSE
    /\ pc' = "done"
    /\ UNCHANGED <<editorValue, fileName, metrics, content, pages, pageIndex,
                   ctx, images, renderLog, notices, currentIndex, downloads,
                   text, maxWidth, lines>>

Next ==
    \/ ShareToRedNote
    \/ BeginRender
    \/ EndRender
    \/ ReturnImages
    \/ PreviousPage
    \/ NextPage
    \/ SaveAllImages
    \/ SaveImage
    \/ CloseModal

Spec == Init /\ [][Next]_vars

-----------------------------------------------------------------------------
(* Claims about the command *)

\* the returns of generateSinglePageImage that gave an image
Rendered == {j \in 1..Len(renderLog) :
                renderLog[j].ev = "return" /\ renderLog[j].imageData # Absent}

\* the body fragments an image shows, in drawing order
BodyDrawn(imageData) ==
    SelectSeq(imageData.texts, LAMBDA d : d.font = BodyFont)

RECURSIVE AllFragments(_, _, _)
\* the fragments of the lines of a page from line p on, wrapped in order, without
\* the lines of page 1 that are the title
AllFragments(context, page, p) ==
    IF p > Len(page.content) THEN <<>>
    ELSE (IF page.content[p] = page.title /\ page.pageNumber = 1
          THEN <<>>
          ELSE wrapText(context, page.content[p], ContentWidth))
         \o AllFragments(context, page, p + 1)

IsPrefix(a, b) == Len(a) <= Len(b) /\ a = SubSeq(b, 1, Len(a))

FooterText(page) ==
    toString(page.pageNumber) \o <<"/">> \o toString(page.totalPages)

\* C5: in every image, no body fragment is drawn below 1340, the body fragments
\* drawn are a prefix of the page's wrapped lines (without page 1's title
\* lines), and the footer pageNumber/totalPages is drawn exactly once.
C5_TruncatedBodyKeepsFooter ==
    \A j \in Rendered :
        LET page == renderLog[j].page
            shown == renderLog[j].imageData.texts
            body == BodyDrawn(renderLog[j].imageData)
        IN  /\ \A i \in 1..Len(body) : body[i].y <= 1340
            /\ IsPrefix([i \in 1..Len(body) |-> body[i].text],
                        AllFragments(metrics, page, 1))
            /\ Cardinality({i \in 1..Len(shown) : shown[i].font = FooterFont}) = 1
            /\ \A i \in 1..Len(shown) :
                   shown[i].font = FooterFont => shown[i].text = FooterText(page)

\* the body of page 1 is cut in the middle of a paragraph, after title lines
\* were left out
C5_Witness ==
    \E j \in Rendered :
        LET page == renderLog[j].page
            body == BodyDrawn(renderLog[j].imageData)
            full == AllFragments(metrics, page, 1)
        IN  /\ Len(body) < Len(full)
            /\ Len(body) > 0
            /\ Len(body) \notin
                   {Len(full) - Len(AllFragments(metrics, page, p)) :
                        p \in 1..(Len(page.content) + 1)}
            /\ page.pageNumber = 1
            /\ \E p \in 2..Len(page.content) : page.content[p] = page.title

\* the images of the returns so far, the absent ones left out
RECURSIVE ImagesOf(_)
ImagesOf(log) ==
    IF log = <<>> THEN <<>>
    ELSE (IF Head(log).ev = "return" /\ Head(log).imageData # Absent
          THEN <<Head(log).imageData>>
          ELSE <<>>)
         \o ImagesOf(Tail(log))

\* C6: pages are rendered one at a time in ascending pageNumber order (call of
\* page 1, its return, call of page 2, its return, ...), and `images` holds the
\* images returned, in that order, without the absent ones.
C6_RenderedInOrder ==
    /\ \A j \in 1..Len(renderLog) :
           /\ renderLog[j].ev = (IF j % 2 = 1 THEN "call" ELSE "return")
           /\ renderLog[j].page.pageNumber = (j + 1) \div 2
    /\ pc \in {"loop", "preview", "done"} => images = ImagesOf(renderLog)
    /\ pc \in {"preview", "done"} /\ fileName # Undefined
           => Len(renderLog) = 2 * Len(pages)

C6_Witness ==
    /\ pc = "preview"
    /\ Len(renderLog) = 6
    /\ renderLog[4].imageData = Absent
    /\ Len(images) = 2

\* C8: a note without a non-blank line after the front matter goes gives no
\* page, no call of generateSinglePageImage and no modal, and the user is shown
\* a notice.
C8_NoContentNotice ==
    (/\ pc = "done"
     /\ fileName # Undefined
     /\ NonBlankLines(StripFrontMatter(editorValue)) = <<>>)
        => /\ pages = <<>>
           /\ renderLog = <<>>
           /\ ~modalOpen
           /\ downloads = {}
           /\ notices # {}

\* the same without the notice: what the code does
C8_NoContentSilent ==
    (/\ pc = "done"
     /\ fileName # Undefined
     /\ NonBlankLines(StripFrontMatter(editorValue)) = <<>>)
        => /\ pages = <<>>
           /\ renderLog = <<>>
           /\ ~modalOpen
           /\ downloads = {}
           /\ notices = {}

\* the footer an image shows
FooterOf(imageData) ==
    SelectSeq(imageData.texts, LAMBDA d : d.font = FooterFont)

\* C9: once images are saved there is one file per page, and the file named
\* with index k holds the image whose footer shows page k.
C9_FileKHoldsPageK ==
    downloads # {} =>
        /\ Cardinality(downloads) = Len(pages)
        /\ \A k \in 1..Len(pages) :
               \E d \in downloads :
                   /\ d.download = fileName \o ShareLabel \o toString(k) \o PngExt
                   /\ FooterOf(d.href) =
                          <<FillText(FooterFont, FooterText(pages[k]),
                                     width - FooterRight, height - FooterBottom)>>

====
